---- MODULE Spec2Model ----
(***************************************************************************)
(* system-harness: a harnessed system (a QEMU virtual machine or a         *)
(* container) behind one lifecycle interface.                              *)
(*                                                                         *)
(* The model holds one harness, built for one of the two backends, the     *)
(* thread that owns it, one terminal handle obtained from it (used from a  *)
(* second thread), and the external system under control: the QEMU monitor *)
(* process with its QMP control socket, or the container runtime.          *)
(***************************************************************************)
EXTENDS Naturals, Sequences, FiniteSets, TLC

\* Bounds of the model.
MaxOps  == 3    \* lifecycle calls (pause/resume/shutdown/status/running) on the harness
MaxKeys == 1    \* send_key calls on the terminal handle
MaxSubs == 1    \* subscribers registered on the harness
MaxWrites == 1  \* writes to the container terminal's stdin
MaxTerms == 2   \* terminal() calls on the VM harness
MaxFrames == 4  \* messages a scripted remote end writes
MaxScriptSubs == 2  \* subscribers registered on the harness facing a scripted remote
MaxInspect == 2  \* elements of the array an inspect prints
MaxProps == 3  \* properties inserted into a PropertyList

\* The two protocol-client handles over the control socket: the harness's own
\* QmpStream ("h") and the try_clone held by the terminal handle ("t").
Handles == {"h", "t"}

VARIABLES
    backend,        \* "qemu" | "container": the configuration build() is called on
    overflowChecks, \* the build profile: TRUE = arithmetic overflow panics (debug)
    hstate,         \* harness: "init","building","built","failed","panicked","dropped"
    bpc,            \* position inside QemuSystemConfig::build
    proc,           \* QEMU monitor process: "none","starting","listening","exited"
    vm,             \* guest run state reported by query-status: "running","paused"
    pdReq,          \* system_powerdown: "no","requested","announced"
    toRemote,       \* commands written to the control socket, not yet executed
    sock,           \* frames the remote wrote, not yet read by any descriptor
    buf,            \* per handle: the BufReader's buffered frames
    pc,             \* per handle: "none","idle","wait" (a command awaits its
                    \* response),"dead" (the call panicked)
    cur,            \* per handle: the command whose response is awaited
    subs,           \* per handle: number of registered subscribers
    delivered,      \* kinds passed to the harness's subscriber, in order
    last, prev,     \* the harness's last two completed calls: [op, res]
    tres,           \* result of the terminal handle's last send_key
    nops, nkeys,    \* calls made so far
    cstate,         \* container: "none","created","running","paused","exited","removed"
    rmIssued,       \* container: the force-remove was invoked by drop
    got,            \* per handle: whose command the last consumed response answered
    lost,           \* a recognized event, emitted for a subscriber, was dropped unseen
    quiet,          \* no change of the controlled system since the last running()
    script,         \* progress through subscribe, pause, resume, shutdown, drop
    dpc,            \* container: position inside Drop ("none","shutdown","rm")
    dropStop,       \* container: result of the shutdown() made by Drop
    spawned,        \* container: runtime subcommands spawned so far
    stdinWrites,    \* container: writes made to the attached process's stdin
    peer,           \* the process the control connection reached: "own","other"
    version,        \* per handle: the QEMU version kept from the greeting
    viaClone,       \* a harness subscriber was called for a frame read by the clone
    hsLog,          \* the messages QmpStream::new read, in order
    firstCmd,       \* the first command written to the control connection
    cause,          \* per handle: what the last error carries
    fdOf,           \* per handle: its descriptors of the two channels
    openFds,        \* the open descriptors of the harness's process
    nterms,         \* terminal() calls made so far
    hop,            \* the operation of the harness's last call on the VM backend
    calls,          \* the subscriber invocations made so far, in order
    output,         \* container: the outcome of the last runtime subcommand looked at
    props,          \* a PropertyList: the properties inserted so far
    formatted,      \* the last formatting of a PropertyList: the list and the output
    stamp,          \* the QmpTimestamp last converted to a SystemTime
    instant         \* the conversion's outcome: a panic, or microseconds since the epoch

vars == << backend, overflowChecks, hstate, bpc, proc, vm, pdReq, toRemote, sock,
           buf, pc, cur, subs, delivered, last, prev, tres, nops, nkeys, cstate,
           rmIssued, got, lost, quiet, script, dpc, dropStop, spawned, stdinWrites,
           peer, version, viaClone, hsLog, firstCmd, cause, fdOf, openFds, nterms,
           hop, calls, output, props, formatted, stamp, instant >>

\* Groups of variables: the container's disposal and process bookkeeping, the
\* protocol client's bookkeeping, the descriptor table.
ctrAux == << dpc, dropStop, spawned, stdinWrites, output >>
qmpAux == << peer, version, viaClone, hsLog, firstCmd, cause, hop, calls >>
fdAux  == << fdOf, openFds, nterms >>

\* The variables of the argument formatting and of the timestamp conversion,
\* and all the others.
argVars == << props, formatted, stamp, instant >>
harnessVars ==
    << backend, overflowChecks, hstate, bpc, proc, vm, pdReq, toRemote, sock,
       buf, pc, cur, subs, delivered, last, prev, tres, nops, nkeys, cstate,
       rmIssued, got, lost, quiet, script, ctrAux, qmpAux, fdAux >>

NoCall == [op |-> "none", res |-> "none"]

\* The descriptors every process starts with: stdin, stdout, stderr.
Stdio == {0, 1, 2}

\* No runtime subcommand was run yet.
NoOutput == [sub |-> "none", ok |-> TRUE, list |-> << >>]

\* Nothing formatted yet, nothing converted yet.
NoText == [of |-> << >>, out |-> << >>]
NoStamp == [seconds |-> << >>, microseconds |-> << >>]
NoInstant == [state |-> "none", micros |-> << >>]

\* A handle that holds no descriptor.
NoFds == [qmp |-> {}, serial |-> {}]

\* A message on the control socket, server to client. to: the handle whose
\* command a response answers; sub: an event written while a subscriber was
\* registered on the harness; n: for a response of a scripted remote, the
\* number of the command it answers (0: not numbered).
Frame(t, v, to) == [t |-> t, v |-> v, to |-> to, sub |-> FALSE, n |-> 0]

Init ==
    /\ backend \in {"qemu", "container"}
    /\ overflowChecks \in BOOLEAN
    /\ hstate = "init"
    /\ bpc = "spawn"
    /\ proc = "none"
    /\ vm = "running"
    /\ pdReq = "no"
    /\ toRemote = << >>
    /\ sock = << >>
    /\ buf = [h \in Handles |-> << >>]
    /\ pc = [h \in Handles |-> "none"]
    /\ cur = [h \in Handles |-> "none"]
    /\ subs = [h \in Handles |-> 0]
    /\ delivered = << >>
    /\ last = NoCall
    /\ prev = NoCall
    /\ tres = "none"
    /\ nops = 0
    /\ nkeys = 0
    /\ cstate = "none"
    /\ rmIssued = FALSE
    /\ got = [h \in Handles |-> "none"]
    /\ lost = FALSE
    /\ quiet = FALSE
    /\ script = "built"
    /\ dpc = "none"
    /\ dropStop = "none"
    /\ spawned = 0
    /\ stdinWrites = 0
    /\ peer = "none"
    /\ version = [h \in Handles |-> "none"]
    /\ viaClone = FALSE
    /\ hsLog = << >>
    /\ firstCmd = "none"
    /\ cause = [h \in Handles |-> "none"]
    /\ fdOf = [h \in Handles |-> NoFds]
    /\ openFds = Stdio
    /\ nterms = 0
    /\ hop = "none"
    /\ calls = << >>
    /\ output = NoOutput
    /\ props = << >>
    /\ formatted = NoText
    /\ stamp = NoStamp
    /\ instant = NoInstant

----------------------------------------------------------------------------
(* Protocol client: src/qemu/qmp.rs                                        *)

\* create_event with every event name mapped to a kind.
create_event_all(name) ==
    CASE name = "POWERDOWN" -> "Shutdown"
      [] name = "STOP"      -> "Pause"
      [] name = "RESUME"    -> "Resume"
      [] OTHER              -> "Shutdown"

\* create_event with SUSPEND mapped to the kind Suspend.
create_event_suspend(name) ==
    CASE name = "POWERDOWN" -> "Shutdown"
      [] name = "STOP"      -> "Pause"
      [] name = "RESUME"    -> "Resume"
      [] name = "SUSPEND"   -> "Suspend"
      [] OTHER              -> "None"

\* create_event: the event names that map to a kind; "None" for the others.
create_event(name) ==
    CASE name = "POWERDOWN" -> "Shutdown"
      [] name = "STOP"      -> "Pause"
      [] name = "RESUME"    -> "Resume"
      [] OTHER              -> "None"

\* TryInto<Status> with the arms of "paused" and "shutdown" exchanged.
TryIntoStatus_exchanged(text) ==
    CASE text = "running"  -> "Running"
      [] text = "shutdown" -> "Paused"
      [] text = "paused"   -> "Shutdown"
      [] text = "save-vm"  -> "Paused"
      [] OTHER             -> "HarnessError"

\* TryInto<Status> with the run state "suspended" given a Status of its own.
TryIntoStatus_suspended(text) ==
    CASE text = "running"   -> "Running"
      [] text = "shutdown"  -> "Shutdown"
      [] text = "paused"    -> "Paused"
      [] text = "save-vm"   -> "Paused"
      [] text = "suspended" -> "Suspended"
      [] OTHER              -> "HarnessError"

\* TryInto<Status> for QmpStatusInfo: the run-state text to a Status.
TryIntoStatus(text) ==
    CASE text = "running"  -> "Running"
      [] text = "shutdown" -> "Shutdown"
      [] text = "paused"   -> "Paused"
      [] text = "save-vm"  -> "Paused"
      [] OTHER             -> "HarnessError"

\* QemuSystem::status: the return value of query-status to the call's result.
QemuStatusResult(v) == IF v = "empty" THEN "HarnessError" ELSE TryIntoStatus(v)

\* The harness operation that sends a command (a QmpCommand variant).
OpOf(cmd) ==
    CASE cmd = "Stop"            -> "pause"
      [] cmd = "Cont"            -> "resume"
      [] cmd = "SystemPowerdown" -> "shutdown"
      [] cmd = "QueryStatus"     -> "status"
      [] cmd = "Quit"            -> "drop"
      [] OTHER                   -> cmd

\* The keys of enum Key.
Keys == {"Enter"}

\* From<Key> for KeyValue.
KeyValueFrom(key) == CASE key = "Enter" -> [variant |-> "Qcode", data |-> "ret"]

\* A QmpCommand value: a variant without content, and SendKey(KeyCommand).
UnitCommand(variant) == [variant |-> variant, keys |-> << >>]
SendKey(keys) == [variant |-> "SendKey", keys |-> keys]

\* The words of a variant's name, and the names given by #[serde(rename)].
Words(variant) ==
    CASE variant = "SendKey"     -> << "Send", "Key" >>
      [] variant = "QueryStatus" -> << "Query", "Status" >>
      [] variant = "Stop"        -> << "Stop" >>
      [] variant = "Cont"        -> << "Cont" >>
      [] variant = "Quit"        -> << "Quit" >>
      [] variant = "Qcode"       -> << "Qcode" >>
      [] variant = "Number"      -> << "Number" >>
      [] OTHER                   -> << variant >>
Renamed == [QmpCapabilities |-> "qmp_capabilities", SystemPowerdown |-> "system_powerdown"]

\* A word in lower case.
Lower(word) ==
    CASE word = "Send"   -> "send"
      [] word = "Key"    -> "key"
      [] word = "Query"  -> "query"
      [] word = "Status" -> "status"
      [] word = "Stop"   -> "stop"
      [] word = "Cont"   -> "cont"
      [] word = "Quit"   -> "quit"
      [] word = "Qcode"  -> "qcode"
      [] word = "Number" -> "number"
      [] OTHER           -> word

\* rename_all = "kebab-case": the words in lower case, joined by hyphens.
RECURSIVE KebabCase(_)
KebabCase(words) ==
    IF Len(words) = 1 THEN Lower(words[1])
    ELSE Lower(words[1]) \o "-" \o KebabCase(Tail(words))

\* The serialized name of a variant.
VariantName(variant) ==
    IF variant \in DOMAIN Renamed THEN Renamed[variant] ELSE KebabCase(Words(variant))

\* The tokens of a JSON text: a string (written between quotes) or punctuation.
JStr(text) == [k |-> "string", s |-> text]
JPunct(text) == [k |-> "punct", s |-> text]

\* Serialize for KeyValue, #[serde(tag = "type")]: the tag, then the fields.
SerializeKeyValue(kv) ==
    << JPunct("{"), JStr("type"), JPunct(":"), JStr(VariantName(kv.variant)),
       JPunct(","), JStr("data"), JPunct(":"), JStr(kv.data), JPunct("}") >>

\* Serialize for a Vec<KeyValue>: the elements, separated by commas.
RECURSIVE SerializeElements(_)
SerializeElements(kvs) ==
    IF kvs = << >> THEN << >>
    ELSE SerializeKeyValue(Head(kvs))
         \o (IF Tail(kvs) = << >> THEN << >> ELSE << JPunct(",") >>)
         \o SerializeElements(Tail(kvs))

\* Serialize for KeyCommand: the one field keys.
SerializeKeyCommand(kvs) ==
    << JPunct("{"), JStr("keys"), JPunct(":"), JPunct("[") >>
    \o SerializeElements(kvs) \o << JPunct("]"), JPunct("}") >>

\* The content member with a null written for the variants without content.
Arguments_null(c) ==
    << JPunct(","), JStr("arguments"), JPunct(":") >>
    \o (IF c.variant = "SendKey" THEN SerializeKeyCommand(c.keys) ELSE << JPunct("null") >>)

\* #[serde(content = "arguments")]: the member that carries a variant's
\* content; a variant without content has no such member.
Arguments(c) ==
    IF c.variant = "SendKey"
    THEN << JPunct(","), JStr("arguments"), JPunct(":") >> \o SerializeKeyCommand(c.keys)
    ELSE << >>

\* Serialize for QmpCommand, #[serde(tag = "execute", content = "arguments")].
SerializeQmpCommand(c) ==
    << JPunct("{"), JStr("execute"), JPunct(":"), JStr(VariantName(c.variant)) >>
    \o Arguments(c) \o << JPunct("}") >>

\* serde_json::to_string: the text of a sequence of tokens.
RECURSIVE to_string(_)
to_string(tokens) ==
    IF tokens = << >> THEN ""
    ELSE (IF Head(tokens).k = "string" THEN "\"" \o Head(tokens).s \o "\""
          ELSE Head(tokens).s) \o to_string(Tail(tokens))

\* String::as_bytes: the bytes of the text, nothing added.
as_bytes(text) == text

\* The command the remote reads from a message: the value of "execute".
Execute(message) == message[4].s

\* line.len() - 1 on the empty line read at end of stream: the subtraction
\* panics where overflow is checked, and wraps otherwise (truncate then leaves
\* the empty line, which does not parse: HarnessError).
TruncateEmptyLine == IF overflowChecks THEN "panic" ELSE "HarnessError"

\* read_message on handle h: the outcomes of one call. It takes the next line
\* of the handle's BufReader; an empty buffer is refilled by one read of the
\* shared socket, which returns any non-empty prefix of what is there. A read
\* of zero bytes (the peer is gone, nothing is left) gives the empty line.
\* With nothing to read and the peer alive the call blocks (no outcome); a
\* connection that another harness's process holds unaccepted never delivers.
read_message(h) ==
    IF peer = "other" THEN {}
    ELSE IF buf[h] # << >>
    THEN {[k |-> "frame", f |-> Head(buf[h]), b |-> Tail(buf[h]), s |-> sock]}
    ELSE IF sock # << >>
    THEN {[k |-> "frame", f |-> sock[1], b |-> SubSeq(sock, 2, n),
           s |-> SubSeq(sock, n + 1, Len(sock))] : n \in 1..Len(sock)}
    ELSE IF proc = "exited"
    THEN {[k |-> TruncateEmptyLine, f |-> Frame("none", "none", "-"),
           b |-> << >>, s |-> << >>]}
    ELSE {}

\* Deserialize for Capabilities with every message accepted.
DeserializeCapabilities_any(f) == "Capabilities"

\* Deserialize for Capabilities: the greeting {"QMP": {"version": ...}}.
DeserializeCapabilities(f) == IF f.t = "greeting" THEN "Capabilities" ELSE "invalid"

\* Deserialize for QmpResponse, #[serde(untagged)]: the first variant whose
\* members the message has, in the order Success, Error, Event. Error needs
\* the member "error" to be a string.
DeserializeQmpResponse(f) ==
    CASE f.t = "return"                  -> "Success"
      [] f.t = "error" /\ f.v = "string" -> "Error"
      [] f.t = "event"                   -> "Event"
      [] OTHER                           -> "invalid"

\* The progress of the harness through the sequence subscribe, pause, resume,
\* shutdown, drop (status and running calls in between do not count); "off"
\* once the calls made are not that sequence.
ScriptStep(op, r) ==
    CASE op \in {"status", "running", "QmpCapabilities"} -> script
      [] op = "pause" /\ r = "Ok" /\ script = "subscribed" -> "paused"
      [] op = "resume" /\ r = "Ok" /\ script = "paused"    -> "resumed"
      [] op = "shutdown" /\ r = "Ok" /\ script = "resumed" -> "shutdown"
      [] op = "drop" /\ r # "panic" /\ script = "shutdown" -> "dropped"
      [] OTHER -> "off"

\* The descriptors of handle h.
FdsOf(h) == fdOf[h].qmp \cup fdOf[h].serial

\* The fields of a dropped value are dropped: the handle's descriptors are
\* closed.
DropFields(h) ==
    /\ openFds' = openFds \ FdsOf(h)
    /\ fdOf' = [fdOf EXCEPT ![h] = NoFds]

\* The call on handle h that sent cmd ends with result r, an error carrying
\* the text c. A failed QmpStream::new drops the stream; the harness's drop
\* ends by dropping its fields.
Finish(h, cmd, r, c) ==
    /\ pc' = [pc EXCEPT ![h] = IF r = "panic" THEN "dead" ELSE "idle"]
    /\ cur' = [cur EXCEPT ![h] = "none"]
    /\ cause' = [cause EXCEPT ![h] = c]
    /\ IF h = "t"
       THEN /\ tres' = r
            /\ UNCHANGED << hstate, bpc, last, prev, script, fdOf, openFds >>
       ELSE /\ tres' = tres
            /\ hstate' = CASE r = "panic" -> "panicked"
                           [] cmd = "Quit" -> "dropped"
                           [] cmd = "QmpCapabilities" /\ r # "Ok" -> "failed"
                           [] OTHER -> hstate
            /\ bpc' = IF cmd = "QmpCapabilities" /\ r = "Ok" THEN "serial" ELSE bpc
            /\ IF cmd = "QmpCapabilities"
               THEN UNCHANGED << last, prev >>
               ELSE /\ last' = [op |-> OpOf(cmd), res |-> r]
                    /\ prev' = last
            /\ script' = ScriptStep(OpOf(cmd), r)
            /\ IF r # "panic" /\ (cmd = "Quit" \/ (cmd = "QmpCapabilities" /\ r # "Ok"))
               THEN DropFields(h)
               ELSE UNCHANGED << fdOf, openFds >>

\* QmpStream::send_command, the write: the serialized command goes to the
\* control socket and the call waits for its response. Writing to a socket
\* whose peer is gone, or to a closed descriptor, fails, and the call ends
\* with that error.
send_command(h, c) ==
    IF proc = "exited" \/ ~(fdOf[h].qmp \subseteq openFds)
    THEN /\ Finish(h, c.variant, "HarnessError", "write")
         /\ UNCHANGED << toRemote, firstCmd >>
    ELSE /\ toRemote' = Append(toRemote, [message |-> SerializeQmpCommand(c),
                                          bytes |-> as_bytes(to_string(SerializeQmpCommand(c))),
                                          command |-> c, from |-> h])
         /\ firstCmd' = IF firstCmd = "none" THEN c.variant ELSE firstCmd
         /\ pc' = [pc EXCEPT ![h] = "wait"]
         /\ cur' = [cur EXCEPT ![h] = c.variant]
         /\ UNCHANGED << hstate, bpc, last, prev, tres, script, cause, fdOf, openFds >>

\* send_event with only the subscriber registered first called.
Invocations_firstOnly(n, kind) ==
    IF n = 0 THEN << >> ELSE << [subscriber |-> 1, kind |-> kind] >>

\* send_event, `for subscriber in &mut self.subscribers`: one call for each of
\* the handle's n subscribers, in the order of the Vec they were pushed to.
Invocations(n, kind) == [i \in 1..n |-> [subscriber |-> i, kind |-> kind]]

\* send_event: every subscriber of the handle is called with the event. The
\* subscribers a handle has are the harness's only if they were registered on
\* it or handed to it.
send_event(h, kind) ==
    /\ delivered' = IF subs[h] > 0 THEN Append(delivered, kind) ELSE delivered
    /\ calls' = calls \o Invocations(subs[h], kind)
    /\ viaClone' = (viaClone \/ (h = "t" /\ subs[h] > 0))

\* QmpStream::wait_for_return, one turn of the loop on handle h: read a
\* message; Success or Error ends the call, an event is delivered to the
\* handle's subscribers and the loop goes on; a message that is no
\* QmpResponse ends the call with the parse error.
wait_for_return(h) ==
    /\ pc[h] = "wait"
    /\ \E m \in read_message(h) :
        /\ buf' = [buf EXCEPT ![h] = m.b]
        /\ sock' = m.s
        /\ hsLog' = IF cur[h] = "QmpCapabilities"
                    THEN Append(hsLog, IF m.k = "frame" THEN m.f.t ELSE "eof")
                    ELSE hsLog
        /\ IF m.k # "frame"
           THEN /\ Finish(h, cur[h], m.k, "parse")
                /\ UNCHANGED << delivered, calls, got, lost, viaClone >>
           ELSE IF DeserializeQmpResponse(m.f) = "Event"
           THEN /\ IF create_event(m.f.v) # "None"
                   THEN /\ send_event(h, create_event(m.f.v))
                        /\ lost' = (lost \/ (m.f.sub /\ subs[h] = 0))
                   ELSE UNCHANGED << delivered, calls, lost, viaClone >>
                /\ UNCHANGED << pc, cur, hstate, bpc, last, prev, tres, script, got,
                                cause, fdOf, openFds >>
           ELSE /\ CASE DeserializeQmpResponse(m.f) = "Error"
                          -> Finish(h, cur[h], "HarnessError", "remote")
                      [] DeserializeQmpResponse(m.f) = "invalid"
                          -> Finish(h, cur[h], "HarnessError", "parse")
                      [] OTHER
                          -> IF cur[h] = "QueryStatus"
                             THEN Finish(h, cur[h], QemuStatusResult(m.f.v),
                                         IF QemuStatusResult(m.f.v) = "HarnessError"
                                         THEN "status" ELSE "none")
                             ELSE Finish(h, cur[h], "Ok", "none")
                /\ got' = [got EXCEPT ![h] = m.f.to]
                /\ UNCHANGED << delivered, calls, lost, viaClone >>
    /\ UNCHANGED << ctrAux, hop, peer, version, firstCmd, nterms >>
    /\ UNCHANGED << argVars, backend, overflowChecks, proc, vm, pdReq, toRemote, subs,
                    nops, nkeys, cstate, rmIssued, quiet >>

----------------------------------------------------------------------------
(* The QEMU monitor process and its QMP server (the remote end).           *)

\* An event frame as the remote writes it.
Emit(name) == [t |-> "event", v |-> name, to |-> "-", sub |-> subs["h"] > 0, n |-> 0]

\* The frames the remote writes when it executes cmd for handle h, in order:
\* stop and cont announce the state change before they return.
Reply(cmd, h) ==
    CASE cmd = "stop" /\ vm = "running" -> << Emit("STOP"), Frame("return", "empty", h) >>
      [] cmd = "cont" /\ vm = "paused"  -> << Emit("RESUME"), Frame("return", "empty", h) >>
      [] cmd = "query-status"           -> << Frame("return", vm, h) >>
      [] cmd = "quit"                   -> << Frame("return", "empty", h), Emit("SHUTDOWN") >>
      [] OTHER                          -> << Frame("return", "empty", h) >>

\* The guest state after cmd.
VmAfter(cmd) ==
    CASE cmd = "stop" -> "paused"
      [] cmd = "cont" -> "running"
      [] OTHER        -> vm

\* The monitor process starts listening on qmp.sock and serial.sock.
RemoteListen ==
    /\ proc = "starting"
    /\ proc' = "listening"
    /\ UNCHANGED << ctrAux, qmpAux, fdAux >>
    /\ UNCHANGED << argVars, backend, overflowChecks, hstate, bpc, vm, pdReq, toRemote, sock,
                    buf, pc, cur, subs, delivered, last, prev, tres, nops, nkeys,
                    cstate, rmIssued, got, lost, quiet, script >>

\* The monitor process exits before it ever listens (a startup failure).
RemoteStartupFailure ==
    /\ proc = "starting"
    /\ proc' = "exited"
    /\ UNCHANGED << ctrAux, qmpAux, fdAux >>
    /\ UNCHANGED << argVars, backend, overflowChecks, hstate, bpc, vm, pdReq, toRemote, sock,
                    buf, pc, cur, subs, delivered, last, prev, tres, nops, nkeys,
                    cstate, rmIssued, got, lost, quiet, script >>

\* The remote executes the oldest command it received and writes the reply.
\* quit ends the process; what it had not yet executed is never answered.
RemoteExecute ==
    /\ proc = "listening"
    /\ toRemote # << >>
    /\ LET cmd == Execute(Head(toRemote).message)
           from == Head(toRemote).from IN
        /\ sock' = sock \o Reply(cmd, from)
        /\ vm' = VmAfter(cmd)
        /\ pdReq' = IF cmd = "system_powerdown" /\ pdReq = "no" THEN "requested" ELSE pdReq
        /\ proc' = IF cmd = "quit" THEN "exited" ELSE proc
        /\ toRemote' = IF cmd = "quit" THEN << >> ELSE Tail(toRemote)
        /\ quiet' = (quiet /\ VmAfter(cmd) = vm /\ cmd # "quit")
    /\ UNCHANGED << ctrAux, qmpAux, fdAux >>
    /\ UNCHANGED << argVars, backend, overflowChecks, hstate, bpc, buf, pc, cur, subs,
                    delivered, last, prev, tres, nops, nkeys, cstate, rmIssued,
                    got, lost, script >>

\* The power-down request is handled by the main loop after the command
\* returned: the POWERDOWN event follows the command's response.
RemotePowerdownEvent ==
    /\ proc = "listening"
    /\ pdReq = "requested"
    /\ pdReq' = "announced"
    /\ sock' = Append(sock, Emit("POWERDOWN"))
    /\ UNCHANGED << ctrAux, qmpAux, fdAux >>
    /\ UNCHANGED << argVars, backend, overflowChecks, hstate, bpc, proc, vm, toRemote,
                    buf, pc, cur, subs, delivered, last, prev, tres, nops, nkeys,
                    cstate, rmIssued, got, lost, quiet, script >>

\* The running guest completes the power-down: the process announces it and
\* exits. A paused guest does not run and cannot power down.
GuestPowerOff ==
    /\ proc = "listening"
    /\ pdReq = "announced"
    /\ vm = "running"
    /\ proc' = "exited"
    /\ sock' = Append(sock, Emit("SHUTDOWN"))
    /\ toRemote' = << >>
    /\ quiet' = FALSE
    /\ UNCHANGED << ctrAux, qmpAux, fdAux >>
    /\ UNCHANGED << argVars, backend, overflowChecks, hstate, bpc, vm, pdReq,
                    buf, pc, cur, subs, delivered, last, prev, tres, nops, nkeys,
                    cstate, rmIssued, got, lost, script >>

----------------------------------------------------------------------------
(* VM backend: src/qemu.rs                                                 *)

\* The QEMU versions a greeting may announce.
Versions == {"8.2.0"}

\* The lowest descriptor number not in use: what connect and dup return.
LowestFree(open) ==
    CHOOSE n \in 0..Cardinality(open) :
        /\ n \notin open
        /\ \A m \in 0..n : m = n \/ m \in open

\* UnixStream::try_clone handing out the descriptor it was given.
UnixStream_try_clone_same(fds, open) == fds

\* UnixStream::try_clone: a new descriptor of the same connection.
UnixStream_try_clone(fds, open) == {LowestFree(open)}

\* QmpStream::try_clone with the subscribers handed to the clone.
QmpStream_try_clone_shared(h, open) ==
    [stream |-> UnixStream_try_clone(fdOf[h].qmp, open),
     version |-> version[h],
     subscribers |-> subs[h]]

\* QmpStream::try_clone: the socket duplicated, the version copied, no
\* subscribers.
QmpStream_try_clone(h, open) ==
    [stream |-> UnixStream_try_clone(fdOf[h].qmp, open),
     version |-> version[h],
     subscribers |-> 0]

\* The connect loop's condition with the process's exit not looked at.
ConnectLoopContinues_untilConnected(exited, connected) == ~connected

\* QemuSystemConfig::build, the connect loop's condition:
\* process.try_wait()?.is_none() && qmp_socket.is_none().
ConnectLoopContinues(exited, connected) == ~exited /\ ~connected

\* QemuSystemConfig::build, command.spawn()?: the process is spawned, or the
\* spawn fails and build returns the IO error.
QemuSystemConfig_build_spawn ==
    /\ backend = "qemu"
    /\ hstate = "init"
    /\ \/ /\ hstate' = "building"
          /\ bpc' = "connect"
          /\ proc' = "starting"
       \/ /\ hstate' = "failed"
          /\ UNCHANGED << bpc, proc >>
    /\ UNCHANGED << ctrAux, qmpAux, fdAux >>
    /\ UNCHANGED << argVars, backend, overflowChecks, vm, pdReq, toRemote, sock,
                    buf, pc, cur, subs, delivered, last, prev, tres, nops, nkeys,
                    cstate, rmIssued, got, lost, quiet, script >>

\* The connect loop ends with a connection to process p on a new descriptor.
Connected(p) ==
    /\ bpc' = "greeting"
    /\ peer' = p
    /\ pc' = [pc EXCEPT !["h"] = "idle"]
    /\ fdOf' = [fdOf EXCEPT !["h"].qmp = {LowestFree(openFds)}]
    /\ openFds' = openFds \cup {LowestFree(openFds)}
    /\ UNCHANGED hstate

\* QemuSystemConfig::build, one evaluation of the connect loop's condition and
\* body. When the loop ends without a connection, qmp_socket.unwrap() panics.
\* The body connects to the path qmp.sock of the working directory: to the
\* spawned process once it listens there (it greets the connection); before
\* that the connect fails, or reaches the socket that the process of another
\* harness built in the same directory listens on.
QemuSystemConfig_build_connect ==
    /\ hstate = "building"
    /\ bpc = "connect"
    /\ IF ~ConnectLoopContinues(proc = "exited", FALSE)
       THEN /\ hstate' = "panicked"
            /\ UNCHANGED << bpc, pc, sock, peer, fdOf, openFds >>
       ELSE \/ /\ proc = "listening"
               /\ Connected("own")
               /\ \E v \in Versions : sock' = << Frame("greeting", v, "-") >>
            \/ /\ proc # "listening"
               /\ UNCHANGED << hstate, bpc, pc, sock, peer, fdOf, openFds >>
            \/ /\ proc = "starting"
               /\ Connected("other")
               /\ UNCHANGED sock
    /\ UNCHANGED << ctrAux, hop, calls, version, viaClone, hsLog, firstCmd, cause, nterms >>
    /\ UNCHANGED << argVars, backend, overflowChecks, proc, vm, pdReq, toRemote,
                    buf, cur, subs, delivered, last, prev, tres, nops, nkeys,
                    cstate, rmIssued, got, lost, quiet, script >>

\* QmpStream::new, the greeting: read and parse the capabilities message and
\* keep its version. On an error the stream is dropped.
QmpStream_new_greeting ==
    /\ hstate = "building"
    /\ bpc = "greeting"
    /\ \E m \in read_message("h") :
        /\ buf' = [buf EXCEPT !["h"] = m.b]
        /\ sock' = m.s
        /\ IF m.k = "frame" /\ DeserializeCapabilities(m.f) = "Capabilities"
           THEN /\ bpc' = "caps"
                /\ version' = [version EXCEPT !["h"] = m.f.v]
                /\ hsLog' = Append(hsLog, m.f.t)
                /\ UNCHANGED << hstate, fdOf, openFds >>
           ELSE /\ hstate' = IF m.k = "panic" THEN "panicked" ELSE "failed"
                /\ hsLog' = Append(hsLog, IF m.k = "frame" THEN m.f.t ELSE "eof")
                /\ IF m.k = "panic" THEN UNCHANGED << fdOf, openFds >>
                   ELSE DropFields("h")
                /\ UNCHANGED << bpc, version >>
    /\ UNCHANGED << ctrAux, hop, calls, peer, viaClone, firstCmd, cause, nterms >>
    /\ UNCHANGED << argVars, backend, overflowChecks, proc, vm, pdReq, toRemote,
                    pc, cur, subs, delivered, last, prev, tres, nops, nkeys,
                    cstate, rmIssued, got, lost, quiet, script >>

\* QmpStream::new, the handshake: send qmp_capabilities and wait.
QmpStream_new_capabilities ==
    /\ hstate = "building"
    /\ bpc = "caps"
    /\ pc["h"] = "idle"
    /\ send_command("h", UnitCommand("QmpCapabilities"))
    /\ UNCHANGED << ctrAux, hop, calls, peer, version, viaClone, hsLog, nterms >>
    /\ UNCHANGED << argVars, backend, overflowChecks, proc, vm, pdReq, sock,
                    buf, subs, delivered, nops, nkeys,
                    cstate, rmIssued, got, lost, quiet >>

\* QemuSystemConfig::build, the data channel: connect serial.sock and return
\* the harness; a failed connect is returned as the IO error and the protocol
\* client is dropped.
QemuSystemConfig_build_serial ==
    /\ hstate = "building"
    /\ bpc = "serial"
    /\ bpc' = "done"
    /\ IF proc = "listening"
       THEN /\ hstate' = "built"
            /\ fdOf' = [fdOf EXCEPT !["h"].serial = {LowestFree(openFds)}]
            /\ openFds' = openFds \cup {LowestFree(openFds)}
       ELSE /\ hstate' = "failed"
            /\ DropFields("h")
    /\ UNCHANGED << ctrAux, qmpAux, nterms >>
    /\ UNCHANGED << argVars, backend, overflowChecks, proc, vm, pdReq, toRemote, sock,
                    buf, pc, cur, subs, delivered, last, prev, tres, nops, nkeys,
                    cstate, rmIssued, got, lost, quiet, script >>

\* The harness is built and its thread is between two calls.
HarnessIdle == hstate = "built" /\ (backend = "qemu" => pc["h"] = "idle")

\* EventPublisher::subscribe on the harness: the subscriber is appended
\* (at most max subscribers are registered).
Subscribe(max) ==
    /\ backend = "qemu"
    /\ HarnessIdle
    /\ subs["h"] < max
    /\ subs' = [subs EXCEPT !["h"] = @ + 1]
    /\ script' = IF script = "built" /\ last = NoCall /\ pc["t"] = "none" /\ nterms = 0
                 THEN "subscribed" ELSE "off"
    /\ UNCHANGED << ctrAux, qmpAux, fdAux >>
    /\ UNCHANGED << argVars, backend, overflowChecks, hstate, bpc, proc, vm, pdReq, toRemote,
                    sock, buf, pc, cur, delivered, last, prev, tres, nops, nkeys,
                    cstate, rmIssued, got, lost, quiet >>

QemuSystem_subscribe == Subscribe(MaxSubs)
QemuSystem_subscribe_scripted == Subscribe(MaxScriptSubs)

\* QemuSystem::terminal: the serial socket and the QmpStream are duplicated
\* (try_clone): the clone reads the same socket through a BufReader of its
\* own and has no subscribers.
QemuSystem_terminal ==
    /\ backend = "qemu"
    /\ HarnessIdle
    /\ pc["t"] = "none"
    /\ nterms < MaxTerms
    /\ nterms' = nterms + 1
    /\ LET serial == UnixStream_try_clone(fdOf["h"].serial, openFds)
           qmp == QmpStream_try_clone("h", openFds \cup serial) IN
        /\ fdOf' = [fdOf EXCEPT !["t"] = [qmp |-> qmp.stream, serial |-> serial]]
        /\ openFds' = openFds \cup serial \cup qmp.stream
        /\ version' = [version EXCEPT !["t"] = qmp.version]
        /\ subs' = [subs EXCEPT !["t"] = qmp.subscribers]
    /\ pc' = [pc EXCEPT !["t"] = "idle"]
    /\ buf' = [buf EXCEPT !["t"] = << >>]
    /\ UNCHANGED << ctrAux, hop, calls, peer, viaClone, hsLog, firstCmd, cause >>
    /\ UNCHANGED << argVars, backend, overflowChecks, hstate, bpc, proc, vm, pdReq, toRemote,
                    sock, cur, delivered, last, prev, tres, nops, nkeys,
                    cstate, rmIssued, got, lost, quiet, script >>

\* The terminal handle is dropped: its descriptors are closed, what its
\* BufReader held is gone.
QemuSystemTerminal_drop ==
    /\ backend = "qemu"
    /\ pc["t"] = "idle"
    /\ pc' = [pc EXCEPT !["t"] = "none"]
    /\ DropFields("t")
    /\ buf' = [buf EXCEPT !["t"] = << >>]
    /\ subs' = [subs EXCEPT !["t"] = 0]
    /\ version' = [version EXCEPT !["t"] = "none"]
    /\ UNCHANGED << ctrAux, hop, calls, peer, viaClone, hsLog, firstCmd, cause, nterms >>
    /\ UNCHANGED << argVars, backend, overflowChecks, hstate, bpc, proc, vm, pdReq, toRemote,
                    sock, cur, delivered, last, prev, tres, nops, nkeys,
                    cstate, rmIssued, got, lost, quiet, script >>

\* QemuSystem::running: the process has not exited (try_wait gives None).
QemuRunning == IF proc = "exited" THEN "false" ELSE "true"

QemuSystem_running ==
    /\ backend = "qemu"
    /\ HarnessIdle
    /\ nops < MaxOps
    /\ nops' = nops + 1
    /\ prev' = last
    /\ last' = [op |-> "running", res |-> QemuRunning]
    /\ quiet' = TRUE
    /\ hop' = "running"
    /\ UNCHANGED << ctrAux, fdAux, peer, version, viaClone, hsLog, firstCmd, cause, calls >>
    /\ UNCHANGED << argVars, backend, overflowChecks, hstate, bpc, proc, vm, pdReq, toRemote,
                    sock, buf, pc, cur, subs, delivered, tres, nkeys,
                    cstate, rmIssued, got, lost, script >>

\* The lifecycle operations with shutdown sending quit.
CommandOf_quit(op) ==
    CASE op = "pause"    -> "Stop"
      [] op = "resume"   -> "Cont"
      [] op = "shutdown" -> "Quit"
      [] op = "status"   -> "QueryStatus"

\* The command each lifecycle operation of QemuSystem passes to send_command.
CommandOf(op) ==
    CASE op = "pause"    -> "Stop"
      [] op = "resume"   -> "Cont"
      [] op = "shutdown" -> "SystemPowerdown"
      [] op = "status"   -> "QueryStatus"

\* QemuSystem::pause, resume, shutdown, status: one send_command each.
QemuSystem_command(op) ==
    /\ backend = "qemu"
    /\ HarnessIdle
    /\ nops < MaxOps
    /\ nops' = nops + 1
    /\ hop' = op
    /\ send_command("h", UnitCommand(CommandOf(op)))
    /\ UNCHANGED << ctrAux, calls, peer, version, viaClone, hsLog, nterms >>
    /\ UNCHANGED << argVars, backend, overflowChecks, proc, vm, pdReq, sock,
                    buf, subs, delivered, nkeys,
                    cstate, rmIssued, got, lost, quiet >>

QemuSystem_pause    == QemuSystem_command("pause")
QemuSystem_resume   == QemuSystem_command("resume")
QemuSystem_shutdown == QemuSystem_command("shutdown")
QemuSystem_status   == QemuSystem_command("status")

\* Drop for QemuSystem: quit is sent when running() gives Ok(true); its
\* error is logged and dropped. Then the fields are dropped.
QemuSystem_drop ==
    /\ backend = "qemu"
    /\ HarnessIdle
    /\ nops' = nops + 1
    /\ IF QemuRunning = "true"
       THEN send_command("h", UnitCommand("Quit"))
       ELSE /\ hstate' = "dropped"
            /\ prev' = last
            /\ last' = [op |-> "drop", res |-> "Ok"]
            /\ script' = ScriptStep("drop", "Ok")
            /\ DropFields("h")
            /\ UNCHANGED << toRemote, pc, cur, bpc, tres, firstCmd, cause >>
    /\ hop' = "drop"
    /\ UNCHANGED << ctrAux, calls, peer, version, viaClone, hsLog, nterms >>
    /\ UNCHANGED << argVars, backend, overflowChecks, proc, vm, pdReq, sock,
                    buf, subs, delivered, nkeys,
                    cstate, rmIssued, got, lost, quiet >>

\* QemuSystemTerminal::send_key: the send-key command on the cloned handle.
QemuSystemTerminal_send_key ==
    /\ backend = "qemu"
    /\ pc["t"] = "idle"
    /\ nkeys < MaxKeys
    /\ nkeys' = nkeys + 1
    /\ \E key \in Keys : send_command("t", SendKey(<< KeyValueFrom(key) >>))
    /\ UNCHANGED << ctrAux, hop, calls, peer, version, viaClone, hsLog, nterms >>
    /\ UNCHANGED << argVars, backend, overflowChecks, proc, vm, pdReq, sock,
                    buf, subs, delivered, nops,
                    cstate, rmIssued, got, lost, quiet >>

----------------------------------------------------------------------------
(* Container backend: src/container.rs, and the container runtime.          *)

\* The runtime's exit status for a subcommand on a container in state cs
\* (TRUE: zero).
RuntimeSucceeds(sub, cs) ==
    CASE sub = "pause"   -> cs = "running"
      [] sub = "unpause" -> cs = "paused"
      [] sub = "stop"    -> cs \in {"created", "running", "exited"}
      [] sub = "rm"      -> cs # "removed"
      [] OTHER           -> TRUE

\* The container's state after the subcommand.
RuntimeAfter(sub, cs) ==
    IF ~RuntimeSucceeds(sub, cs) THEN cs
    ELSE CASE sub = "pause"   -> "paused"
           [] sub = "unpause" -> "running"
           [] sub = "stop"    -> IF cs = "created" THEN cs ELSE "exited"
           [] sub = "rm"      -> "removed"
           [] OTHER           -> cs

\* What `inspect <id>` can give for a container in state cs: its exit status
\* and the array it prints. For a container that no longer exists the runtime
\* exits non-zero, or prints the empty array. A paused container is reported
\* as not running and paused.
inspect(cs) ==
    IF cs = "removed"
    THEN {[sub |-> "inspect", ok |-> FALSE, list |-> << >>],
          [sub |-> "inspect", ok |-> TRUE, list |-> << >>]}
    ELSE {[sub |-> "inspect", ok |-> TRUE,
           list |-> << [running |-> cs = "running", paused |-> cs = "paused"] >>]}

\* The Output of a subcommand that prints nothing the harness reads.
Run(sub, cs) == [sub |-> sub, ok |-> RuntimeSucceeds(sub, cs), list |-> << >>]

\* output_to_result with the exit status not looked at.
output_to_result_ignored(success) == "Ok"

\* output_to_result: a zero exit status gives Ok, any other a HarnessError.
output_to_result(success) == IF success THEN "Ok" ELSE "HarnessError"

\* The translation with State.Paused looked at first.
StateToStatus_pausedFirst(running, paused) ==
    IF paused THEN "Paused"
    ELSE IF running THEN "Running"
    ELSE "Shutdown"

\* ContainerSystem::status, the translation of the first inspect element's
\* flags State.Running and State.Paused.
StateToStatus(running, paused) ==
    IF running THEN "Running"
    ELSE IF paused THEN "Paused"
    ELSE IF ~running /\ ~paused THEN "Shutdown"
    ELSE "HarnessError"

\* ContainerSystem::status with the last Ok result kept and returned again.
ContainerStatus_cached(out) ==
    IF last.op = "status" /\ last.res \in {"Running", "Paused", "Shutdown"}
    THEN last.res
    ELSE IF ~out.ok \/ out.list = << >> THEN "HarnessError"
    ELSE StateToStatus(Head(out.list).running, Head(out.list).paused)

\* ContainerSystem::status on the output of a fresh inspect: a failed inspect
\* and an empty array ("Container doesn't exist") are errors, otherwise the
\* first element is translated.
ContainerStatus(out) ==
    IF output_to_result(out.ok) = "HarnessError" THEN "HarnessError"
    ELSE IF out.list = << >> THEN "HarnessError"
    ELSE StateToStatus(Head(out.list).running, Head(out.list).paused)

\* ContainerSystem::running: status() == Running.
ContainerRunning(out) ==
    IF ContainerStatus(out) = "HarnessError" THEN "HarnessError"
    ELSE IF ContainerStatus(out) = "Running" THEN "true" ELSE "false"

\* ContainerSystemConfig::build: create, whose failure is returned, then
\* start, whose exit status is not looked at.
ContainerSystemConfig_build ==
    /\ backend = "container"
    /\ hstate = "init"
    /\ \E created \in BOOLEAN :
        /\ output' = [sub |-> "create", ok |-> created, list |-> << >>]
        /\ IF output_to_result(created) # "Ok"
           THEN /\ hstate' = "failed"              \* create exits non-zero
                /\ spawned' = spawned + 1
                /\ UNCHANGED cstate
           ELSE /\ hstate' = "built"
                /\ spawned' = spawned + 2
                /\ cstate' \in {"running",        \* created and started
                                "created"}        \* created, start exits non-zero
    /\ UNCHANGED << dpc, dropStop, stdinWrites, qmpAux, fdAux >>
    /\ UNCHANGED << argVars, backend, overflowChecks, bpc, proc, vm, pdReq, toRemote, sock,
                    buf, pc, cur, subs, delivered, last, prev, tres, nops, nkeys,
                    rmIssued, got, lost, quiet, script >>

\* A call of the container harness: op, whose one runtime subcommand gave
\* out, returns r and leaves the container in cs. An error carries the
\* subcommand's standard error, or the text "Container doesn't exist".
ContainerCall(op, out, r, cs) ==
    /\ backend = "container"
    /\ HarnessIdle
    /\ nops < MaxOps
    /\ nops' = nops + 1
    /\ prev' = last
    /\ last' = [op |-> op, res |-> r]
    /\ cstate' = cs
    /\ spawned' = spawned + 1
    /\ quiet' = (op = "running" \/ (quiet /\ cs = cstate))
    /\ output' = out
    /\ cause' = [cause EXCEPT !["h"] = IF ~out.ok THEN "stderr"
                                      ELSE IF r = "HarnessError" THEN "missing"
                                      ELSE "none"]
    /\ UNCHANGED << dpc, dropStop, stdinWrites, fdAux >>
    /\ UNCHANGED << peer, version, viaClone, hsLog, firstCmd, hop, calls >>
    /\ UNCHANGED << argVars, backend, overflowChecks, hstate, bpc, proc, vm, pdReq, toRemote,
                    sock, buf, pc, cur, subs, delivered, tres, nkeys,
                    rmIssued, got, lost, script >>

ContainerSystem_pause ==
    ContainerCall("pause", Run("pause", cstate),
                  output_to_result(Run("pause", cstate).ok),
                  RuntimeAfter("pause", cstate))

ContainerSystem_resume ==
    ContainerCall("resume", Run("unpause", cstate),
                  output_to_result(Run("unpause", cstate).ok),
                  RuntimeAfter("unpause", cstate))

ContainerSystem_shutdown ==
    ContainerCall("shutdown", Run("stop", cstate),
                  output_to_result(Run("stop", cstate).ok),
                  RuntimeAfter("stop", cstate))

ContainerSystem_status ==
    \E out \in inspect(cstate) :
        ContainerCall("status", out, ContainerStatus(out), cstate)

ContainerSystem_running ==
    \E out \in inspect(cstate) :
        ContainerCall("running", out, ContainerRunning(out), cstate)

\* The State flags of an inspect element, and what an inspect may print
\* whatever the runtime: a failure, or an array of at most MaxInspect
\* elements with any flags.
Flags == [running : BOOLEAN, paused : BOOLEAN]
InspectOutputs ==
    {[sub |-> "inspect", ok |-> FALSE, list |-> << >>]}
    \cup {[sub |-> "inspect", ok |-> TRUE, list |-> l] :
            l \in UNION {[1..n -> Flags] : n \in 0..MaxInspect}}

\* ContainerSystem::status and running, given any output of inspect.
ContainerSystem_status_given ==
    \E out \in InspectOutputs :
        ContainerCall("status", out, ContainerStatus(out), cstate)

ContainerSystem_running_given ==
    \E out \in InspectOutputs :
        ContainerCall("running", out, ContainerRunning(out), cstate)

\* ContainerSystem::terminal: an interactive exec process is spawned, its
\* stdin and stdout piped.
ContainerSystem_terminal ==
    /\ backend = "container"
    /\ HarnessIdle
    /\ pc["t"] = "none"
    /\ pc' = [pc EXCEPT !["t"] = "idle"]
    /\ spawned' = spawned + 1
    /\ UNCHANGED << dpc, dropStop, stdinWrites, output, qmpAux, fdAux >>
    /\ UNCHANGED << argVars, backend, overflowChecks, hstate, bpc, proc, vm, pdReq, toRemote,
                    sock, buf, cur, subs, delivered, last, prev, tres, nops, nkeys,
                    cstate, rmIssued, got, lost, quiet, script >>

\* ContainerSystemTerminal::send_key accepting the key.
SendKeyResult_accepted(key) == "Ok"

\* ContainerSystemTerminal::send_key, its value: the key is ignored, the
\* result is the error "Sending a keystroke not supported".
SendKeyResult(key) == "HarnessError"

\* ContainerSystemTerminal::send_key: not supported; the error is built and
\* returned, nothing else is done.
ContainerSystemTerminal_send_key ==
    /\ backend = "container"
    /\ pc["t"] = "idle"
    /\ nkeys < MaxKeys
    /\ nkeys' = nkeys + 1
    /\ \E key \in Keys : tres' = SendKeyResult(key)
    /\ UNCHANGED << ctrAux, qmpAux, fdAux >>
    /\ UNCHANGED << argVars, backend, overflowChecks, hstate, bpc, proc, vm, pdReq, toRemote,
                    sock, buf, pc, cur, subs, delivered, last, prev, nops,
                    cstate, rmIssued, got, lost, quiet, script >>

\* Write for ContainerSystemTerminal: the bytes go to the exec process's stdin.
ContainerSystemTerminal_write ==
    /\ backend = "container"
    /\ pc["t"] = "idle"
    /\ stdinWrites < MaxWrites
    /\ stdinWrites' = stdinWrites + 1
    /\ UNCHANGED << dpc, dropStop, spawned, output, qmpAux, fdAux >>
    /\ UNCHANGED << argVars, backend, overflowChecks, hstate, bpc, proc, vm, pdReq, toRemote,
                    sock, buf, pc, cur, subs, delivered, last, prev, tres, nops, nkeys,
                    cstate, rmIssued, got, lost, quiet, script >>

\* Drop for ContainerSystem with the remove made whatever shutdown() returned.
DropRemoves_always(shutdownResult) == TRUE

\* Drop for ContainerSystem, `if let Ok(()) = self.shutdown()`: the remove is
\* made only when the shutdown returned Ok.
DropRemoves(shutdownResult) == shutdownResult = "Ok"

\* Drop returns.
DropReturns ==
    /\ hstate' = "dropped"
    /\ prev' = last
    /\ last' = [op |-> "drop", res |-> "Ok"]

\* Drop for ContainerSystem, self.running(): a fresh inspect; the drop goes on
\* only when it gave Ok(true).
ContainerSystem_drop ==
    /\ backend = "container"
    /\ HarnessIdle
    /\ \E out \in inspect(cstate) :
        /\ output' = out
        /\ IF ContainerRunning(out) = "true"
           THEN /\ hstate' = "dropping"
                /\ dpc' = "shutdown"
                /\ UNCHANGED << last, prev >>
           ELSE /\ DropReturns
                /\ dpc' = "skipped"
    /\ spawned' = spawned + 1
    /\ UNCHANGED << dropStop, stdinWrites, qmpAux, fdAux >>
    /\ UNCHANGED << argVars, backend, overflowChecks, bpc, proc, vm, pdReq, toRemote, sock,
                    buf, pc, cur, subs, delivered, tres, nops, nkeys,
                    cstate, rmIssued, got, lost, quiet, script >>

\* Drop for ContainerSystem, self.shutdown(): stop; a failure is logged and
\* the drop returns.
ContainerSystem_drop_shutdown ==
    /\ backend = "container"
    /\ hstate = "dropping"
    /\ dpc = "shutdown"
    /\ output' = Run("stop", cstate)
    /\ dropStop' = output_to_result(Run("stop", cstate).ok)
    /\ cstate' = RuntimeAfter("stop", cstate)
    /\ spawned' = spawned + 1
    /\ IF DropRemoves(dropStop')
       THEN /\ dpc' = "rm"
            /\ UNCHANGED << hstate, last, prev >>
       ELSE /\ DropReturns
            /\ dpc' = "done"
    /\ UNCHANGED << stdinWrites, qmpAux, fdAux >>
    /\ UNCHANGED << argVars, backend, overflowChecks, bpc, proc, vm, pdReq, toRemote, sock,
                    buf, pc, cur, subs, delivered, tres, nops, nkeys,
                    rmIssued, got, lost, quiet, script >>

\* Drop for ContainerSystem, rm -f: the container is force-removed; the
\* output of the command is dropped.
ContainerSystem_drop_rm ==
    /\ backend = "container"
    /\ hstate = "dropping"
    /\ dpc = "rm"
    /\ cstate' = RuntimeAfter("rm", cstate)
    /\ rmIssued' = TRUE
    /\ spawned' = spawned + 1
    /\ DropReturns
    /\ dpc' = "done"
    /\ UNCHANGED << dropStop, stdinWrites, output, qmpAux, fdAux >>
    /\ UNCHANGED << argVars, backend, overflowChecks, bpc, proc, vm, pdReq, toRemote, sock,
                    buf, pc, cur, subs, delivered, tres, nops, nkeys,
                    got, lost, quiet, script >>

\* The container's main process ends by itself.
ContainerExits ==
    /\ cstate = "running"
    /\ cstate' = "exited"
    /\ quiet' = FALSE
    /\ UNCHANGED << ctrAux, qmpAux, fdAux >>
    /\ UNCHANGED << argVars, backend, overflowChecks, hstate, bpc, proc, vm, pdReq, toRemote,
                    sock, buf, pc, cur, subs, delivered, last, prev, tres, nops,
                    nkeys, rmIssued, got, lost, script >>

\* The container is removed behind the harness's back.
ContainerRemovedOutOfBand ==
    /\ cstate \in {"created", "running", "paused", "exited"}
    /\ cstate' = "removed"
    /\ quiet' = FALSE
    /\ UNCHANGED << ctrAux, qmpAux, fdAux >>
    /\ UNCHANGED << argVars, backend, overflowChecks, hstate, bpc, proc, vm, pdReq, toRemote,
                    sock, buf, pc, cur, subs, delivered, last, prev, tres, nops,
                    nkeys, rmIssued, got, lost, script >>

----------------------------------------------------------------------------
(* Event timestamps: From<QmpTimestamp> for SystemTime, src/qemu/qmp.rs     *)

\* Unsigned integers are sequences of bytes, the least significant first,
\* without high zero bytes; a u64 has at most 8 of them.
Byte == 256
U64Bytes == 8
Million == 1000000

\* The bytes of a small number.
RECURSIVE BytesOf(_)
BytesOf(c) == IF c = 0 THEN << >> ELSE << c % Byte >> \o BytesOf(c \div Byte)

\* x without its high zero bytes.
RECURSIVE Norm(_)
Norm(x) ==
    IF x = << >> THEN << >>
    ELSE IF x[Len(x)] = 0 THEN Norm(SubSeq(x, 1, Len(x) - 1))
    ELSE x

\* x * m + c, in full, for a small m and c.
RECURSIVE MulAdd(_, _, _)
MulAdd(x, m, c) ==
    IF x = << >> THEN BytesOf(c)
    ELSE << (Head(x) * m + c) % Byte >> \o MulAdd(Tail(x), m, (Head(x) * m + c) \div Byte)

\* x + y + c, in full, for a carry c.
RECURSIVE Add(_, _, _)
Add(x, y, c) ==
    IF x = << >> /\ y = << >> THEN BytesOf(c)
    ELSE LET a == IF x = << >> THEN 0 ELSE Head(x)
             b == IF y = << >> THEN 0 ELSE Head(y)
             xs == IF x = << >> THEN << >> ELSE Tail(x)
             ys == IF y = << >> THEN << >> ELSE Tail(y) IN
         << (a + b + c) % Byte >> \o Add(xs, ys, (a + b + c) \div Byte)

\* The number written with the decimal digits ds.
RECURSIVE FromDecimal(_)
FromDecimal(ds) ==
    IF ds = << >> THEN << >>
    ELSE Norm(MulAdd(FromDecimal(SubSeq(ds, 1, Len(ds) - 1)), 10, ds[Len(ds)]))

\* A result of u64 arithmetic: it overflows when it needs more than 8 bytes;
\* the wrapped value keeps the low 8.
Overflows(x) == Len(Norm(x)) > U64Bytes
Wrap(x) == IF Overflows(x) THEN Norm(SubSeq(x, 1, U64Bytes)) ELSE Norm(x)

\* The values of "seconds" and "microseconds" an event message may carry:
\* any u64. 0, 1, a date of today, the largest seconds whose product with
\* 1,000,000 is a u64 and the next one, the microseconds that fill that
\* product up to the largest u64 and the next one, the last microsecond of a
\* second, and the largest u64.
SecondsValues ==
    {FromDecimal(ds) : ds \in {<< 0 >>, << 1 >>, << 1, 7, 9, 3, 6, 7, 8, 4, 0, 0 >>,
                               << 1, 8, 4, 4, 6, 7, 4, 4, 0, 7, 3, 7, 0, 9 >>,
                               << 1, 8, 4, 4, 6, 7, 4, 4, 0, 7, 3, 7, 1, 0 >>,
                               << 1, 8, 4, 4, 6, 7, 4, 4, 0, 7, 3, 7, 0, 9, 5, 5, 1, 6, 1, 5 >>}}
MicrosecondsValues ==
    {FromDecimal(ds) : ds \in {<< 0 >>, << 1 >>, << 9, 9, 9, 9, 9, 9 >>,
                               << 5, 5, 1, 6, 1, 5 >>, << 5, 5, 1, 6, 1, 6 >>,
                               << 1, 8, 4, 4, 6, 7, 4, 4, 0, 7, 3, 7, 0, 9, 5, 5, 1, 6, 1, 5 >>}}

\* From<QmpTimestamp> for SystemTime:
\* (value.seconds * 1000000) + value.microseconds in u64, then
\* UNIX_EPOCH + Duration::from_micros. An overflow of the product or of the
\* sum panics where overflow is checked and wraps otherwise.
QmpTimestamp_into(ts) ==
    LET product == MulAdd(ts.seconds, Million, 0)
        sum == Add(Wrap(product), ts.microseconds, 0) IN
    IF overflowChecks /\ (Overflows(product) \/ Overflows(sum))
    THEN [state |-> "panic", micros |-> << >>]
    ELSE [state |-> "ok", micros |-> Wrap(sum)]

\* create_event for a recognized event: its timestamp is converted.
create_event_timestamp ==
    /\ instant.state # "panic"
    /\ \E seconds \in SecondsValues, microseconds \in MicrosecondsValues :
        /\ stamp' = [seconds |-> seconds, microseconds |-> microseconds]
        /\ instant' = QmpTimestamp_into(stamp')
    /\ UNCHANGED << props, formatted, harnessVars >>

----------------------------------------------------------------------------
(* Command-line arguments: src/qemu/args.rs                                 *)

\* The keys and the values of the properties inserted: a value is what
\* PropertyValue::value returns, an Option<String> (the empty sequence is
\* None, a sequence of one text is Some of it).
PropertyKeys == {"a", "b"}
PropertyValues == {<< >>, << "4" >>, << "" >>}

\* Property::valued with the property kept whatever its value, None taken as
\* the empty text.
Property_valued_always(p) ==
    << [key |-> p.key, value |-> IF p.value = << >> THEN "" ELSE p.value[1]] >>

\* Property::valued: the ValuedProperty of a property that has a value, None
\* otherwise.
Property_valued(p) ==
    IF p.value = << >> THEN << >> ELSE << [key |-> p.key, value |-> p.value[1]] >>

\* self.0.iter().filter_map(Property::valued): the valued properties, in the
\* order of the Vec.
RECURSIVE filter_map_valued(_)
filter_map_valued(list) ==
    IF list = << >> THEN << >>
    ELSE Property_valued(Head(list)) \o filter_map_valued(Tail(list))

\* Display for ValuedProperty: "{}={}", the pieces written.
ValuedProperty_fmt(vp) == << vp.key, "=", vp.value >>

\* Display for PropertyList, the for loop: a comma and the property, for each
\* of those left in the iterator.
RECURSIVE WriteRest(_)
WriteRest(rest) ==
    IF rest = << >> THEN << >>
    ELSE << "," >> \o ValuedProperty_fmt(Head(rest)) \o WriteRest(Tail(rest))

\* Display for PropertyList: the first valued property, if any, then the
\* others, each after a comma.
PropertyList_fmt(list) ==
    LET valued == filter_map_valued(list) IN
    IF valued = << >> THEN << >>
    ELSE ValuedProperty_fmt(Head(valued)) \o WriteRest(Tail(valued))

\* PropertyList::insert: the property is pushed to the Vec.
PropertyList_insert ==
    /\ Len(props) < MaxProps
    /\ \E key \in PropertyKeys, value \in PropertyValues :
        props' = Append(props, [key |-> key, value |-> value])
    /\ UNCHANGED << formatted, stamp, instant, harnessVars >>

\* format!("{props}"): the list is formatted.
PropertyList_format ==
    /\ formatted' = [of |-> props, out |-> PropertyList_fmt(props)]
    /\ UNCHANGED << props, stamp, instant, harnessVars >>

----------------------------------------------------------------------------
(* Specifications                                                           *)

\* The thread that owns the harness.
HarnessStep ==
    \/ QemuSystemConfig_build_spawn
    \/ QemuSystemConfig_build_connect
    \/ QmpStream_new_greeting
    \/ QmpStream_new_capabilities
    \/ QemuSystemConfig_build_serial
    \/ QemuSystem_subscribe
    \/ QemuSystem_terminal
    \/ QemuSystem_running
    \/ QemuSystem_pause
    \/ QemuSystem_resume
    \/ QemuSystem_shutdown
    \/ QemuSystem_status
    \/ QemuSystem_drop
    \/ ContainerSystemConfig_build
    \/ ContainerSystem_pause
    \/ ContainerSystem_resume
    \/ ContainerSystem_shutdown
    \/ ContainerSystem_status
    \/ ContainerSystem_running
    \/ ContainerSystem_terminal
    \/ ContainerSystem_drop
    \/ ContainerSystem_drop_shutdown
    \/ ContainerSystem_drop_rm

\* The thread that holds the terminal handle.
TerminalStep ==
    \/ QemuSystemTerminal_send_key
    \/ QemuSystemTerminal_drop
    \/ ContainerSystemTerminal_send_key
    \/ ContainerSystemTerminal_write

\* A blocked call reads the control socket.
ReadStep == \E h \in Handles : wait_for_return(h)

\* The controlled system.
RemoteStep ==
    \/ RemoteListen
    \/ RemoteStartupFailure
    \/ RemoteExecute
    \/ RemotePowerdownEvent
    \/ GuestPowerOff
    \/ ContainerExits
    \/ ContainerRemovedOutOfBand

\* The harness and the terminal handle are used from two threads.
Next == HarnessStep \/ TerminalStep \/ ReadStep \/ RemoteStep

Spec == Init /\ [][Next]_vars

\* The harness and the terminal handle are used from one thread: no call is
\* made on one of them while a call on the other is outstanding.
NextSeq ==
    \/ pc["t"] # "wait" /\ HarnessStep
    \/ pc["h"] # "wait" /\ TerminalStep
    \/ ReadStep
    \/ RemoteStep

SpecSeq == Init /\ [][NextSeq]_vars

\* The start of a VM harness under fair scheduling: the thread that builds
\* the harness keeps running its connect loop, and the spawned process
\* eventually listens on its sockets or exits. After the build the harness
\* is queried and dropped.
NextLive ==
    \/ QemuSystemConfig_build_spawn
    \/ QemuSystemConfig_build_connect
    \/ QmpStream_new_greeting
    \/ QmpStream_new_capabilities
    \/ QemuSystemConfig_build_serial
    \/ QemuSystem_status
    \/ QemuSystem_running
    \/ QemuSystem_drop
    \/ ReadStep
    \/ RemoteListen
    \/ RemoteStartupFailure
    \/ RemoteExecute

SpecLive ==
    /\ Init
    /\ [][NextLive]_vars
    /\ WF_vars(QemuSystemConfig_build_connect)
    /\ WF_vars(RemoteListen \/ RemoteStartupFailure)

\* The messages a remote end may write on the control connection: a greeting,
\* a line that is no JSON of the protocol, the responses {"return": {}} and
\* {"return": {"status": "running", ...}}, an error whose "error" member is a
\* string, an error as QEMU writes it ({"error": {"class": .., "desc": ..}}),
\* the recognized events and an unrecognized one.
WireFrames ==
    {Frame("greeting", v, "-") : v \in Versions}
    \cup {Frame("malformed", "-", "-"),
          Frame("return", "empty", "h"), Frame("return", "running", "h"),
          Frame("error", "string", "h"), Frame("error", "object", "h"),
          Frame("event", "STOP", "-"), Frame("event", "RESUME", "-"),
          Frame("event", "POWERDOWN", "-"), Frame("event", "RTC_CHANGE", "-")}

\* The number of responses among the first i messages of q.
RECURSIVE ResponsesUpTo(_, _)
ResponsesUpTo(q, i) ==
    IF i = 0 THEN 0
    ELSE ResponsesUpTo(q, i - 1) + (IF q[i].t \in {"return", "error"} THEN 1 ELSE 0)

\* What a remote end writes that answers each command it receives with one
\* response, in order: the k-th response of the sequence answers the k-th
\* command written to the connection.
Numbered(q) ==
    [i \in DOMAIN q |->
        IF q[i].t \in {"return", "error"}
        THEN [q[i] EXCEPT !.n = ResponsesUpTo(q, i)] ELSE q[i]]

\* The protocol client against a scripted remote end: the control connection
\* was just made, and what the remote will write, in order, is any sequence of
\* at most MaxFrames messages.
InitWire ==
    /\ backend = "qemu"
    /\ overflowChecks \in BOOLEAN
    /\ hstate = "building"
    /\ bpc = "greeting"
    /\ proc = "listening"
    /\ vm = "running"
    /\ pdReq = "no"
    /\ toRemote = << >>
    /\ sock \in {Numbered(q) : q \in UNION {[1..n -> WireFrames] : n \in 0..MaxFrames}}
    /\ buf = [h \in Handles |-> << >>]
    /\ pc = [h \in Handles |-> IF h = "h" THEN "idle" ELSE "none"]
    /\ cur = [h \in Handles |-> "none"]
    /\ subs = [h \in Handles |-> 0]
    /\ delivered = << >>
    /\ last = NoCall
    /\ prev = NoCall
    /\ tres = "none"
    /\ nops = 0
    /\ nkeys = 0
    /\ cstate = "none"
    /\ rmIssued = FALSE
    /\ got = [h \in Handles |-> "none"]
    /\ lost = FALSE
    /\ quiet = FALSE
    /\ script = "built"
    /\ dpc = "none"
    /\ dropStop = "none"
    /\ spawned = 0
    /\ stdinWrites = 0
    /\ peer = "own"
    /\ version = [h \in Handles |-> "none"]
    /\ viaClone = FALSE
    /\ hsLog = << >>
    /\ firstCmd = "none"
    /\ cause = [h \in Handles |-> "none"]
    /\ fdOf = [h \in Handles |-> IF h = "h" THEN [qmp |-> {LowestFree(Stdio)}, serial |-> {}]
                                  ELSE NoFds]
    /\ openFds = Stdio \cup {LowestFree(Stdio)}
    /\ nterms = 0
    /\ hop = "none"
    /\ calls = << >>
    /\ output = NoOutput
    /\ props = << >>
    /\ formatted = NoText
    /\ stamp = NoStamp
    /\ instant = NoInstant

\* The client's side only: the handshake, the end of build, commands of the
\* harness, and the reads of the correlation loop.
NextWire ==
    \/ QmpStream_new_greeting
    \/ QmpStream_new_capabilities
    \/ QemuSystemConfig_build_serial
    \/ QemuSystem_subscribe_scripted
    \/ QemuSystem_pause
    \/ QemuSystem_status
    \/ ReadStep

SpecWire == InitWire /\ [][NextWire]_vars

\* Events with any timestamp are read, one after the other.
NextTimestamp == create_event_timestamp

SpecTimestamp == Init /\ [][NextTimestamp]_vars

\* A property list built and formatted.
NextArgs ==
    \/ PropertyList_insert
    \/ PropertyList_format

SpecArgs == Init /\ [][NextArgs]_vars

\* The container harness queried while the runtime's inspect prints anything.
NextInspect ==
    \/ ContainerSystemConfig_build
    \/ ContainerSystem_status_given
    \/ ContainerSystem_running_given

SpecInspect == Init /\ [][NextInspect]_vars

\* Run states that query-status may report: the four the client knows, and
\* two of the others.
RunStates == {"running", "shutdown", "paused", "save-vm", "suspended", "prelaunch"}

\* The Success responses a remote end may write: {"return": {}} and a status
\* structure with each run state.
ReturnFrames ==
    {Frame("return", "empty", "h")} \cup {Frame("return", text, "h") : text \in RunStates}

\* A built VM harness against a scripted remote end that writes any sequence
\* of at most MaxFrames of the given messages.
BuiltHarness(frames) ==
    /\ backend = "qemu"
    /\ overflowChecks \in BOOLEAN
    /\ hstate = "built"
    /\ bpc = "done"
    /\ proc = "listening"
    /\ vm = "running"
    /\ pdReq = "no"
    /\ toRemote = << >>
    /\ sock \in UNION {[1..n -> frames] : n \in 0..MaxFrames}
    /\ buf = [h \in Handles |-> << >>]
    /\ pc = [h \in Handles |-> IF h = "h" THEN "idle" ELSE "none"]
    /\ cur = [h \in Handles |-> "none"]
    /\ subs = [h \in Handles |-> 0]
    /\ delivered = << >>
    /\ last = NoCall
    /\ prev = NoCall
    /\ tres = "none"
    /\ nops = 0
    /\ nkeys = 0
    /\ cstate = "none"
    /\ rmIssued = FALSE
    /\ got = [h \in Handles |-> IF h = "h" THEN "h" ELSE "none"]
    /\ lost = FALSE
    /\ quiet = FALSE
    /\ script = "built"
    /\ dpc = "none"
    /\ dropStop = "none"
    /\ spawned = 0
    /\ stdinWrites = 0
    /\ peer = "own"
    /\ \E v \in Versions : version = [h \in Handles |-> IF h = "h" THEN v ELSE "none"]
    /\ viaClone = FALSE
    /\ hsLog = << "greeting", "return" >>
    /\ firstCmd = "QmpCapabilities"
    /\ cause = [h \in Handles |-> "none"]
    /\ LET qmp == LowestFree(Stdio)
           serial == LowestFree(Stdio \cup {qmp}) IN
        /\ fdOf = [h \in Handles |-> IF h = "h" THEN [qmp |-> {qmp}, serial |-> {serial}]
                                      ELSE NoFds]
        /\ openFds = Stdio \cup {qmp, serial}
    /\ nterms = 0
    /\ hop = "none"
    /\ calls = << >>
    /\ output = NoOutput
    /\ props = << >>
    /\ formatted = NoText
    /\ stamp = NoStamp
    /\ instant = NoInstant

\* A built VM harness against a scripted remote end that answers with any
\* sequence of at most MaxFrames Success responses.
InitStatus == BuiltHarness(ReturnFrames)

\* status() and pause() calls of the harness, and the reads of their calls.
NextStatus ==
    \/ QemuSystem_status
    \/ QemuSystem_pause
    \/ ReadStep

SpecStatus == InitStatus /\ [][NextStatus]_vars

\* What the monitor process of a guest that suspends itself writes: the
\* events SUSPEND, WAKEUP and STOP, and the status structures with the run
\* states suspended and running.
SuspendFrames ==
    {Frame("event", "SUSPEND", "-"), Frame("event", "WAKEUP", "-"),
     Frame("event", "STOP", "-"),
     Frame("return", "suspended", "h"), Frame("return", "running", "h")}

\* Either backend: a built and subscribed-to VM harness whose guest suspends
\* itself, queried; a container harness built, paused, resumed, shut down
\* and queried, the runtime's inspect printing anything.
NextSuspend ==
    \/ QemuSystem_subscribe_scripted
    \/ QemuSystem_status
    \/ ReadStep
    \/ ContainerSystemConfig_build
    \/ ContainerSystem_pause
    \/ ContainerSystem_resume
    \/ ContainerSystem_shutdown
    \/ ContainerSystem_status_given
    \/ ContainerSystem_running_given

SpecSuspend ==
    /\ (BuiltHarness(SuspendFrames) \/ (Init /\ backend = "container"))
    /\ [][NextSuspend]_vars

----------------------------------------------------------------------------
(* Properties                                                               *)

Statuses == {"Running", "Paused", "Suspended", "Shutdown"}

\* The controlled system has ended or is gone.
SystemGone ==
    IF backend = "qemu" THEN proc = "exited" ELSE cstate \in {"exited", "removed"}

\* C1: running() returns true exactly when status() returns Running: a
\* running() call and the status() call right after it, with no change of the
\* controlled system in between, never disagree.
C1_RunningIffStatusRunning ==
    (/\ prev.op = "running" /\ prev.res \in {"true", "false"}
     /\ last.op = "status" /\ last.res \in Statuses
     /\ quiet)
    => (prev.res = "true" <=> last.res = "Running")

\* C2: on both backends, the status() call that follows a pause() that
\* returned Ok returns Paused, and the status() call that follows a resume()
\* that returned Ok returns Running. The one exception is a controlled system
\* that ended by itself or was removed behind the harness's back in between:
\* status() then fails, or reports the ended container as Shutdown.
C2_PauseResumeStatus ==
    /\ (prev = [op |-> "pause", res |-> "Ok"] /\ last.op = "status")
       => \/ last.res = "Paused"
          \/ backend = "container" /\ cstate = "removed" /\ last.res = "HarnessError"
    /\ (prev = [op |-> "resume", res |-> "Ok"] /\ last.op = "status")
       => \/ last.res = "Running"
          \/ SystemGone /\ last.res \in {"HarnessError", "panic", "Shutdown"}

\* C2, witness: a subscribed VM harness paused, resumed and queried, the
\* status() returning Running after the resume() returned Ok.
C2_Witness ==
    /\ backend = "qemu"
    /\ delivered = << "Pause", "Resume" >>
    /\ prev = [op |-> "resume", res |-> "Ok"]
    /\ last = [op |-> "status", res |-> "Running"]
    /\ nops = 3

\* C3: on the VM backend, a harness subscribed right after build and taken
\* through pause, resume, shutdown and drop, the remote having written one
\* STOP, one RESUME and one POWERDOWN frame, has delivered exactly Pause,
\* Resume, Shutdown, in that order.
C3_OneEventEach ==
    (/\ backend = "qemu" /\ script = "dropped" /\ hstate = "dropped"
     /\ pdReq = "announced" /\ nterms = 0)
    => delivered = << "Pause", "Resume", "Shutdown" >>

\* C4: whenever build() returned Ok the controlled system was started: the
\* container left the created state, the monitor process came up.
C4_BuiltMeansStarted ==
    hstate = "built"
    => IF backend = "container" THEN cstate # "created"
       ELSE proc \in {"listening", "exited"}

\* The responses in a sequence of frames.
Responses(q) == {i \in DOMAIN q : q[i].t \in {"return", "error"}}

\* The commands written to the control socket whose response no handle has
\* consumed yet.
InFlight ==
    Len(toRemote) + Cardinality(Responses(sock))
    + Cardinality(Responses(buf["h"])) + Cardinality(Responses(buf["t"]))

\* C5: at most one command is in flight on the control connection.
C5_OneCommandInFlight == InFlight <= 1

\* C6: every call on a handle ends with the response to that handle's own
\* command, never with one addressed to the other handle.
C6_OwnResponse == \A h \in Handles : got[h] \in {"none", h}

\* C7: no recognized event written after a subscriber was registered on the
\* harness is consumed without being delivered to that subscriber.
C7_NoEventLost == ~lost

\* C8: build() does not panic when the monitor process exits before any
\* connection to the control socket succeeded.
C8_StartupFailureIsError == ~(hstate = "panicked" /\ bpc = "connect")

\* C9: no call of the protocol client panics when the remote end has closed
\* the control connection.
C9_CloseIsError == \A h \in Handles : pc[h] # "dead"

\* C10: disposal of a VM harness never panics.
C10_DropNeverPanics == ~(last.op = "drop" /\ last.res = "panic")

\* C11: disposal of a container harness: the shutdown is attempted exactly
\* when the container was observed running; the force-remove is issued only
\* after that shutdown returned Ok; after a failed shutdown no remove is issued
\* (the disposal leaves the container as it is); and the disposal returns
\* normally in every case, a failing remove included.
C11_DropRemovesAfterShutdown ==
    backend = "container" =>
        /\ rmIssued => dropStop = "Ok"
        /\ dpc = "rm" => dropStop = "Ok"
        /\ dropStop = "HarnessError" => ~rmIssued /\ dpc = "done" /\ hstate = "dropped"
        /\ dpc = "skipped" => dropStop = "none" /\ ~rmIssued
        /\ dpc = "done" => dropStop # "none"
        /\ last.op = "drop" => last.res = "Ok"

\* C11, witness: a disposal whose shutdown failed (the container had been
\* removed after it was observed running) has returned without a remove.
C11_Witness ==
    /\ backend = "container" /\ hstate = "dropped"
    /\ dropStop = "HarnessError" /\ ~rmIssued
    /\ last = [op |-> "drop", res |-> "Ok"]

\* C12: every send_key on a container terminal handle returns HarnessError,
\* spawns no runtime subcommand, writes nothing to the attached process's
\* stdin and leaves the container as it is.
C12_SendKeyUnsupported ==
    [][(backend = "container" /\ nkeys' = nkeys + 1)
       => /\ tres' = "HarnessError"
          /\ spawned' = spawned
          /\ stdinWrites' = stdinWrites
          /\ cstate' = cstate]_vars

\* C12, witness: send_key has failed on the terminal handle of a paused
\* container, a handle that was written to before.
C12_Witness ==
    /\ backend = "container" /\ nkeys = 1 /\ tres = "HarnessError"
    /\ cstate = "paused" /\ stdinWrites = 1

\* What a status() call has to return for a container in state cs.
FreshStatus(cs) ==
    CASE cs = "removed" -> "HarnessError"
      [] cs = "running" -> "Running"
      [] cs = "paused"  -> "Paused"
      [] OTHER          -> "Shutdown"

\* C13: every status() call of the container harness returns what the
\* container's state at the time of the call gives, whatever earlier calls
\* returned: HarnessError once the container was removed.
C13_StatusIsFresh ==
    [][(backend = "container" /\ nops' = nops + 1 /\ last'.op = "status")
       => last'.res = FreshStatus(cstate)]_vars

\* C13, witness: status() returned Running, the container was removed behind
\* the harness's back, and the next status() returned HarnessError.
C13_Witness ==
    /\ backend = "container" /\ cstate = "removed"
    /\ prev = [op |-> "status", res |-> "Running"]
    /\ last = [op |-> "status", res |-> "HarnessError"]

\* C14: the text of every command written to the control socket is exact:
\* quit is {"execute":"quit"}, send-key for Enter is the text with the one
\* qcode key "ret", and a command without content has no arguments member.
C14_SerializationExact ==
    \A i \in DOMAIN toRemote :
        LET c == toRemote[i].command
            text == to_string(toRemote[i].message) IN
        /\ c.variant = "Quit" => text = "{\"execute\":\"quit\"}"
        /\ c = SendKey(<< KeyValueFrom("Enter") >>)
           => text = "{\"execute\":\"send-key\",\"arguments\":"
                     \o "{\"keys\":[{\"type\":\"qcode\",\"data\":\"ret\"}]}}"
        /\ c.variant # "SendKey"
           => \A j \in DOMAIN toRemote[i].message :
                  toRemote[i].message[j] # JStr("arguments")
        /\ c.variant = "Stop" => text = "{\"execute\":\"stop\"}"
        /\ c.variant = "QueryStatus" => text = "{\"execute\":\"query-status\"}"
        /\ c.variant = "SystemPowerdown" => text = "{\"execute\":\"system_powerdown\"}"
        /\ c.variant = "QmpCapabilities" => text = "{\"execute\":\"qmp_capabilities\"}"

\* C14, witness: send_key(Enter) was written on the terminal handle and
\* awaits its response.
C14_Witness ==
    /\ pc["t"] = "wait"
    /\ \E i \in DOMAIN toRemote : toRemote[i].command.variant = "SendKey"

\* C15: subscriptions are per handle: the clone never has a subscriber and
\* holds the version of the harness's client; no subscriber of the harness is
\* called for a frame the clone read; and the harness's subscriber set changes
\* only by a subscribe call, a step in which nothing is read.
C15_SubscriptionsPerHandle ==
    /\ [](/\ subs["t"] = 0
          /\ ~viaClone
          /\ (backend = "qemu" /\ pc["t"] # "none")
             => (version["t"] = version["h"] /\ version["t"] \in Versions))
    /\ [][subs'["h"] # subs["h"]
          => (subs'["h"] = subs["h"] + 1 /\ sock' = sock /\ buf' = buf)]_vars

\* C15, witness: with a subscriber registered on the harness, a send_key on
\* the terminal handle read a recognized event frame and returned Ok, and the
\* subscriber was not called.
C15_Witness ==
    /\ subs["h"] = 1 /\ lost /\ tres = "Ok"
    /\ delivered = << >> /\ ~viaClone

\* C16: the harness and a terminal handle hold descriptors of their own: as
\* long as the harness is built its two descriptors are open, as long as a
\* terminal handle exists its two descriptors are open and are none of the
\* harness's, whatever was dropped before; and no command fails on its write
\* while the monitor process is alive.
C16_OwnDescriptors ==
    backend = "qemu" =>
        /\ hstate = "built"
           => /\ fdOf["h"].qmp # {} /\ fdOf["h"].serial # {}
              /\ FdsOf("h") \subseteq openFds
        /\ pc["t"] \in {"idle", "wait"}
           => /\ fdOf["t"].qmp # {} /\ fdOf["t"].serial # {}
              /\ FdsOf("t") \subseteq openFds
              /\ FdsOf("t") \cap FdsOf("h") = {}
        /\ \A h \in Handles : cause[h] = "write" => proc = "exited"

\* C16, witness: a first terminal handle was dropped, a second one obtained,
\* then the harness was dropped: the second handle's descriptors are open.
C16_Witness ==
    /\ backend = "qemu" /\ nterms = 2 /\ hstate = "dropped"
    /\ pc["t"] = "idle" /\ fdOf["t"].serial \subseteq openFds
    /\ fdOf["t"].serial # {}

\* C17: the control connection of the harness reaches the monitor process
\* that the harness spawned.
C17_OwnProcess == peer # "other"

\* C18: the handshake of a new control connection: the first command written
\* is qmp_capabilities, and it is written only after a greeting was read and
\* parsed; QmpStream::new has returned Ok only if the last message it read was
\* a Success and all between the greeting and it were events; a first message
\* that is no greeting, or an acknowledgment that is an error, makes it fail.
C18_HandshakeOrder ==
    backend = "qemu" =>
        /\ firstCmd \in {"none", "QmpCapabilities"}
        /\ firstCmd # "none" => (hsLog # << >> /\ hsLog[1] = "greeting")
        /\ bpc \in {"serial", "done"}
           => /\ Len(hsLog) >= 2 /\ hsLog[1] = "greeting"
              /\ hsLog[Len(hsLog)] = "return"
              /\ \A i \in 2..Len(hsLog) : i = Len(hsLog) \/ hsLog[i] = "event"
        /\ hstate = "built" => bpc = "done"
        /\ (hsLog # << >> /\ hsLog[1] # "greeting")
           => (hstate \in {"failed", "panicked"} /\ firstCmd = "none")
        /\ (Len(hsLog) >= 2 /\ hsLog[Len(hsLog)] \in {"error", "malformed", "greeting", "eof"})
           => hstate \in {"failed", "panicked"}

\* C18, witness: the harness is built after a handshake in which an event
\* came between the greeting and the acknowledgment.
C18_Witness ==
    /\ hstate = "built" /\ hsLog = << "greeting", "event", "return" >>
    /\ firstCmd = "QmpCapabilities"

\* The build is in its connect loop.
InConnectLoop == hstate = "building" /\ bpc = "connect"

NextFrame(h) == IF buf[h] # << >> THEN Head(buf[h]) ELSE Head(sock)

\* The result with which the call of the harness's handle has ended.
CallResult ==
    IF cur["h"] = "QmpCapabilities"
    THEN (IF bpc' = "serial" THEN "Ok" ELSE IF hstate' = "failed" THEN "HarnessError" ELSE "none")
    ELSE last'.res

\* C20: every read of the correlation loop: a Success message ends the call
\* with its value, an error message ends it with a HarnessError that carries
\* the remote's error text, an event message leaves the call waiting and its
\* result open.
C20_FirstResponseEndsCall ==
    [][(pc["h"] = "wait" /\ (buf'["h"] # buf["h"] \/ sock' # sock))
       => LET f == NextFrame("h") IN
          CASE f.t = "return"
                 -> /\ pc'["h"] = "idle"
                    /\ CallResult = IF cur["h"] # "QueryStatus" THEN "Ok"
                                    ELSE IF f.v = "empty" THEN "HarnessError"
                                    ELSE TryIntoStatus(f.v)
            [] f.t = "error"
                 -> /\ pc'["h"] = "idle"
                    /\ CallResult = "HarnessError"
                    /\ cause'["h"] = "remote"
            [] f.t = "event"
                 -> /\ pc'["h"] = "wait"
                    /\ UNCHANGED << cur, last, prev, hstate, bpc, cause >>
            [] OTHER -> TRUE]_vars

\* A step in which the call waiting on handle h reads a message.
ReadBy(h) == pc[h] = "wait" /\ (buf'[h] # buf[h] \/ Len(sock') < Len(sock))

\* C21: every read of an event message by a waiting call: POWERDOWN gives the
\* kind Shutdown, STOP gives Pause, RESUME gives Resume, handed to the
\* handle's subscriber; any other name calls no subscriber; in both cases no
\* error is produced and the call keeps waiting for its response.
C21_EventTranslation ==
    [][\A h \in Handles :
        (ReadBy(h) /\ NextFrame(h).t = "event")
        => /\ pc'[h] = "wait" /\ cur'[h] = cur[h]
           /\ UNCHANGED << last, prev, tres, hstate, bpc, cause >>
           /\ delivered' =
                CASE subs[h] = 0 -> delivered
                  [] NextFrame(h).v = "POWERDOWN" -> Append(delivered, "Shutdown")
                  [] NextFrame(h).v = "STOP"      -> Append(delivered, "Pause")
                  [] NextFrame(h).v = "RESUME"    -> Append(delivered, "Resume")
                  [] OTHER                        -> delivered
           /\ (NextFrame(h).v \notin {"POWERDOWN", "STOP", "RESUME"}
               => calls' = calls)]_vars

\* C21, witness: a subscribed harness's pause() has read a POWERDOWN and an
\* unrecognized event and goes on waiting: one Shutdown was delivered.
C21_Witness ==
    /\ pc["h"] = "wait" /\ cur["h"] = "Stop" /\ subs["h"] = 1
    /\ delivered = << "Shutdown" >>
    /\ sock = << >> /\ buf["h"] = << >>
    /\ hsLog = << "greeting", "return" >>

\* The subscriber invocations that one recognized event read on handle h
\* makes: every subscriber registered at that moment, in registration order.
Delivery(h, name) ==
    [i \in 1..subs[h] |->
        [subscriber |-> i,
         kind |-> CASE name = "POWERDOWN" -> "Shutdown"
                    [] name = "STOP"      -> "Pause"
                    [] name = "RESUME"    -> "Resume"]]

\* C22: deliveries are synchronous and ordered by arrival: the step that reads
\* a recognized event appends, to the invocations made so far, one invocation
\* of every subscriber registered at that moment, in registration order; no
\* other step makes or reorders an invocation; so a call has returned only
\* after the events read before its response were delivered.
C22_OrderedDelivery ==
    [][/\ \A h \in Handles :
            (ReadBy(h) /\ NextFrame(h).t = "event"
             /\ NextFrame(h).v \in {"POWERDOWN", "STOP", "RESUME"})
            => calls' = calls \o Delivery(h, NextFrame(h).v)
       /\ (\A h \in Handles : ~(ReadBy(h) /\ NextFrame(h).t = "event"))
            => calls' = calls]_vars

\* C22, witness: with two subscribers registered, a pause() read STOP, then
\* its response, and returned Ok: the event went to the first subscriber,
\* then to the second, before the response was read.
C22_Witness ==
    /\ subs["h"] = 2 /\ last = [op |-> "pause", res |-> "Ok"]
    /\ calls = << [subscriber |-> 1, kind |-> "Pause"],
                  [subscriber |-> 2, kind |-> "Pause"] >>

\* A step in which send_command on handle h fails on its write.
WriteFailed(h) ==
    /\ pc[h] = "idle" /\ pc'[h] = "idle" /\ cause'[h] = "write"
    /\ IF h = "h" THEN nops' = nops + 1 ELSE nkeys' = nkeys + 1

\* The result of the last call made on handle h.
ResultOn(h) == IF h = "h" THEN last.res ELSE tres

\* C23: the error kinds of the protocol client: a call that ends on a line
\* that does not parse, on a response of an unexpected shape or on an Error
\* response returns HarnessError; a call whose write to the control socket
\* fails returns IO.
C23_ErrorKinds ==
    [][\A h \in Handles :
        /\ (ReadBy(h) /\ pc'[h] = "idle" /\ cause'[h] \in {"parse", "remote", "status"}
            /\ cur[h] # "QmpCapabilities")
           => ResultOn(h)' = "HarnessError"
        /\ WriteFailed(h) => ResultOn(h)' = "IO"]_vars

\* C24: every command written to the control socket is its JSON text followed
\* by a line break, and a step writes at most one command.
C24_OneMessagePerLine ==
    /\ [](\A i \in DOMAIN toRemote :
            toRemote[i].bytes = to_string(toRemote[i].message) \o "\n")
    /\ [][Len(toRemote') <= Len(toRemote) + 1]_vars

\* The lifecycle operations of the VM harness that send a command, and the
\* command each has to send.
LifecycleOps == {"pause", "resume", "shutdown", "status"}
WireCommand ==
    [pause |-> "stop", resume |-> "cont", shutdown |-> "system_powerdown",
     status |-> "query-status"]

\* C25: every lifecycle call of the VM harness writes exactly one command,
\* the one of its operation (or fails on the write and writes none), and does
\* nothing to the monitor process; while the call waits, its command is the
\* only one of the harness on the connection; and the call has returned Ok
\* (status: a Status) only in a step that read a Success response addressed
\* to the harness.
C25_OneCommandPerOperation ==
    /\ [](\A i \in DOMAIN toRemote :
            (toRemote[i].from = "h" /\ hop \in LifecycleOps)
            => /\ Execute(toRemote[i].message) = WireCommand[hop]
               /\ pc["h"] = "wait"
               /\ \A j \in DOMAIN toRemote : toRemote[j].from = "h" => j = i)
    /\ [][/\ (backend = "qemu" /\ nops' = nops + 1 /\ hop' \in LifecycleOps)
             => /\ proc' = proc /\ vm' = vm
                /\ \/ /\ Len(toRemote') = Len(toRemote) + 1
                      /\ SubSeq(toRemote', 1, Len(toRemote)) = toRemote
                      /\ toRemote'[Len(toRemote')].from = "h"
                      /\ Execute(toRemote'[Len(toRemote')].message) = WireCommand[hop']
                      /\ pc'["h"] = "wait"
                   \/ /\ toRemote' = toRemote
                      /\ pc'["h"] = "idle"
                      /\ last'.res = "HarnessError"
          /\ (backend = "qemu" /\ hop \in LifecycleOps
              /\ pc["h"] = "wait" /\ pc'["h"] = "idle"
              /\ last'.res \in {"Ok"} \cup Statuses)
             => /\ ReadBy("h")
                /\ NextFrame("h").t = "return" /\ NextFrame("h").to = "h"
                /\ last'.op = hop]_vars

\* C25, witness: shutdown() returned Ok after resume() did; the power-down
\* was announced and the monitor process is alive.
C25_Witness ==
    /\ hop = "shutdown" /\ last = [op |-> "shutdown", res |-> "Ok"]
    /\ prev = [op |-> "resume", res |-> "Ok"]
    /\ proc = "listening" /\ pdReq = "announced" /\ toRemote = << >>

\* C26: every Success response read by a status() call ends the call with
\* the translation of its run-state text: running gives Running, shutdown
\* Shutdown, paused Paused, save-vm Paused; any other text, and a return value
\* that is no status structure, gives HarnessError.
C26_StatusTranslation ==
    [][(ReadBy("h") /\ cur["h"] = "QueryStatus" /\ NextFrame("h").t = "return")
       => /\ pc'["h"] = "idle"
          /\ last'.op = "status"
          /\ last'.res = CASE NextFrame("h").v = "running"  -> "Running"
                           [] NextFrame("h").v = "shutdown" -> "Shutdown"
                           [] NextFrame("h").v = "paused"   -> "Paused"
                           [] NextFrame("h").v = "save-vm"  -> "Paused"
                           [] OTHER                         -> "HarnessError"
          /\ last'.res = "HarnessError" => cause'["h"] = "status"]_vars

\* C26, witness: a status() call returned Paused, the next one read a
\* response that has no translation and returned HarnessError; a response
\* with the run state "suspended" is what the remote wrote last.
C26_Witness ==
    /\ nops = 2 /\ hop = "status" /\ pc["h"] = "idle"
    /\ prev = [op |-> "status", res |-> "Paused"]
    /\ last = [op |-> "status", res |-> "HarnessError"] /\ cause["h"] = "status"
    /\ sock = << Frame("return", "suspended", "h") >> /\ buf["h"] = << >>

\* C27: a status() call of the container harness whose inspect succeeded
\* returns the translation of the first element's flags: Running when
\* Running is set, whatever Paused is; Paused when only Paused is set;
\* Shutdown when none is; never an error; and HarnessError ("Container
\* doesn't exist") when the array is empty.
C27_FlagsTranslation ==
    (backend = "container" /\ last.op = "status" /\ output.sub = "inspect" /\ output.ok)
    => IF output.list = << >>
       THEN last.res = "HarnessError" /\ cause["h"] = "missing"
       ELSE last.res = CASE Head(output.list).running -> "Running"
                         [] Head(output.list).paused  -> "Paused"
                         [] OTHER                     -> "Shutdown"

\* C27, witness: status() returned Running for an inspect whose first
\* element has both flags set and whose second has none.
C27_Witness ==
    /\ last = [op |-> "status", res |-> "Running"]
    /\ output.ok
    /\ output.list = << [running |-> TRUE, paused |-> TRUE],
                        [running |-> FALSE, paused |-> FALSE] >>

\* The runtime subcommand that each operation of the container harness runs.
Subcommand ==
    [pause |-> "pause", resume |-> "unpause", shutdown |-> "stop",
     status |-> "inspect", running |-> "inspect"]

C29_NoLeak ==
    (hstate = "dropped" /\ last = [op |-> "drop", res |-> "Ok"]
     /\ (backend = "container" => (output.ok /\ dropStop # "HarnessError")))
    => IF backend = "qemu" THEN proc = "exited"
       ELSE cstate \notin {"running", "paused"}

\* The number of the command that the harness's handle waits for, the
\* commands written to a scripted remote's connection being kept.
WaitingFor == Len(toRemote)

\* C30: against a remote that answers each command with one response, in
\* order, the response that ends a call of the harness's handle is the one
\* the remote wrote for that call's command, whatever lines were read before.
C30_ResponseOfOwnCommand ==
    [][(ReadBy("h") /\ NextFrame("h").t \in {"return", "error"})
       => NextFrame("h").n = WaitingFor]_vars

\* C31: no status() call of either backend has returned Suspended, no
\* subscriber was called with the kind Suspend, and on the container backend
\* no subscriber exists or was called.
C31_NeverSuspended ==
    /\ last.res # "Suspended" /\ prev.res # "Suspended"
    /\ \A i \in DOMAIN calls : calls[i].kind \in {"Shutdown", "Pause", "Resume"}
    /\ \A i \in DOMAIN delivered : delivered[i] \in {"Shutdown", "Pause", "Resume"}
    /\ backend = "container"
       => (calls = << >> /\ delivered = << >> /\ \A h \in Handles : subs[h] = 0)

\* C31, witness: a subscribed VM harness's status() returned Running; the
\* next one read a STOP, handed to the subscriber, and the status structure
\* of a suspended guest, and returned HarnessError.
C31_Witness ==
    /\ backend = "qemu" /\ subs["h"] = 1 /\ nops = 2
    /\ prev = [op |-> "status", res |-> "Running"]
    /\ last = [op |-> "status", res |-> "HarnessError"] /\ cause["h"] = "status"
    /\ calls = << [subscriber |-> 1, kind |-> "Pause"] >>
    /\ sock = << >> /\ buf["h"] = << >>

\* The positions of the list's properties that have a value, and the rank
\* of such a position among them.
Valued(list) == {i \in DOMAIN list : list[i].value # << >>}
Rank(list, i) == Cardinality({j \in Valued(list) : j <= i})

\* C32: the formatting of a property list, as the pieces written: for each
\* property that has a value, in insertion order, its key, "=", and its
\* value; one comma between two of them and nowhere else; nothing for a
\* property without a value; nothing at all when no property has a value.
C32_PropertyListFormat ==
    LET list == formatted.of
        out == formatted.out
        n == Cardinality(Valued(list)) IN
    /\ Len(out) = IF n = 0 THEN 0 ELSE 4 * n - 1
    /\ \A i \in Valued(list) :
        LET base == 4 * (Rank(list, i) - 1) IN
        /\ out[base + 1] = list[i].key
        /\ out[base + 2] = "="
        /\ out[base + 3] = list[i].value[1]
        /\ Rank(list, i) < n => out[base + 4] = ","

\* C32, witness: a list of three properties whose second has no value was
\* formatted: a=4,b= .
C32_Witness ==
    /\ formatted.of = << [key |-> "a", value |-> << "4" >>],
                         [key |-> "a", value |-> << >>],
                         [key |-> "b", value |-> << "" >>] >>
    /\ formatted.out = << "a", "=", "4", ",", "b", "=", "" >>

\* C33: every conversion of an event's timestamp gives the epoch plus
\* seconds * 1,000,000 + microseconds microseconds, computed exactly: it
\* does not panic and does not wrap.
C33_TimestampExact ==
    instant.state # "none"
    => /\ instant.state = "ok"
       /\ instant.micros
            = Norm(Add(MulAdd(stamp.seconds, 1000000, 0), stamp.microseconds, 0))

====
